---- MODULE Spec2Model ----
(***************************************************************************)
(* Model of backend/app.py: a Streamlit script that indexes a PDF into a   *)
(* Pinecone vector store, builds a Groq LLM client, starts a stock         *)
(* single-threaded HTTPServer on a daemon thread (POST /query, OPTIONS)    *)
(* and offers the same get_answer through an interactive page.             *)
(*                                                                         *)
(* Execution model.  The file is a Streamlit script: Streamlit executes    *)
(* it top to bottom once when the page is opened and again, in a fresh     *)
(* module namespace, on every widget interaction; st.button("Ask") is      *)
(* True only in the run that the click triggered.  A run is numbered       *)
(* 1..MaxRuns; run r owns the module globals ns[r] and the daemon thread   *)
(* it starts at line 114 is thread r.  One browser session is modelled.    *)
(* The listening socket is exclusive (Linux, the Render deployment the     *)
(* source names): a second bind of the same port raises and that thread    *)
(* dies.  Methods without a do_* method (GET, ...) are answered by the     *)
(* base class and are not modelled.                                        *)
(*                                                                         *)
(* Strings are sequences of tokens: <<>> is the empty string.              *)
(***************************************************************************)
EXTENDS Integers, Sequences, FiniteSets, TLC

\* ------------------------------------------------------------- bounds
MaxRuns == 2        \* script executions (first run + reruns)
NChunks == 2        \* len(docs): chunks the fixed PDF splits into
MaxPending == 1     \* connections waiting in the listen backlog

\* ------------------------------------------------------------- constants
K == 3              \* similarity_search(query, k=3)

\* line 67: the prefix of the returned string; the warning sign that opens
\* it in the source is written WARNING here
WarningMarker == "WARNING Error processing query: "

Runs == 1..MaxRuns

VARIABLES
    index,       \* remote Pinecone index: set of <<upserting run, chunk>> vectors
    run,         \* number of the current script execution
    spc,         \* position of the script in the current execution
    ns,          \* ns[r]: module globals of run r (docs, vectorstore, llm bound?)
    clicked,     \* st.button("Ask") value of the current run
    query,       \* st.text_input value of the current run
    uiGa,        \* get_answer call frame of the interactive page
    widgets,     \* the page shows the text input and the Ask button
    thr,         \* thr[r]: state of the daemon thread started by run r
    portOwner,   \* thread holding the listening socket, 0 if none
    backlog,     \* number of connections waiting in the listen backlog
    h            \* h[t]: request handler activation of server thread t

vars == <<index, run, spc, ns, clicked, query, uiGa, widgets, thr, portOwner, backlog, h>>

\* ------------------------------------------------------------- get_answer
Warning(msg) == <<WarningMarker, msg>>

StartsWithWarning(s) == Len(s) > 0 /\ s[1] = WarningMarker

\* call frame of get_answer: searched = similarity_search has returned,
\* llmCalled = llm.invoke was called, raisedIn = the dependency that raised
GaIdle == [pc |-> "none", query |-> <<>>, searched |-> FALSE, nresults |-> 0,
           llmCalled |-> FALSE, raisedIn |-> "none", result |-> <<>>, error |-> <<>>]

\* entering get_answer(query): the try block, before line 49
GaStart(q) == [GaIdle EXCEPT !.pc = "retrieve", !.query = q]

\* a mutation of get_answer: no try/except, the exception leaves get_answer
OnExceptionPropagate(f, msg) == [f EXCEPT !.pc = "raised", !.error = <<msg>>]

\* except Exception as e: return warning string (lines 66-67)
OnException(f, msg) == [f EXCEPT !.pc = "returned", !.result = Warning(msg)]

Min(a, b) == IF a < b THEN a ELSE b

\* a mutation of get_answer: a failed search is ignored and generation goes on
GaRetrieveIgnoreFailure(f, n, out) ==
    [f EXCEPT !.pc = "generate", !.searched = (ns[n].vectorstore /\ out = "ok"),
              !.raisedIn = IF ns[n].vectorstore /\ out = "ok" THEN "none" ELSE "search"]

\* line 49-50 in the globals of run n; out is the vector store's outcome
GaRetrieve(f, n, out) ==
    IF ~ns[n].vectorstore THEN OnException([f EXCEPT !.raisedIn = "search"], "NameError")
    ELSE IF out = "raise" THEN OnException([f EXCEPT !.raisedIn = "search"], "search failed")
    ELSE [f EXCEPT !.pc = "generate", !.searched = TRUE,
                   !.nresults = Min(K, Cardinality(index))]

\* lines 52-65 in the globals of run n; out is the LLM's outcome
GaGenerate(f, n, out) ==
    IF ~ns[n].llm THEN OnException([f EXCEPT !.raisedIn = "llm"], "NameError")
    ELSE IF out = "raise"
    THEN OnException([f EXCEPT !.llmCalled = TRUE, !.raisedIn = "llm"], "llm failed")
    ELSE [f EXCEPT !.pc = "returned", !.llmCalled = TRUE,
                   !.result = IF out = "text" THEN <<"text">> ELSE <<>>]

SearchOutcomes == {"ok", "raise"}
LlmOutcomes == {"text", "blank", "raise"}

\* ------------------------------------------------------------- the script
\* a mutation of the script: the server thread is started before indexing
ScriptOrderThreadFirst == <<"load", "thread", "index", "llm", "ui">>

\* order of the module-level statements: lines 27-31, 35-39, 43, 114, 118-121
ScriptOrder == <<"load", "index", "llm", "thread", "ui">>

After(p) ==
    LET i == CHOOSE j \in 1..Len(ScriptOrder) : ScriptOrder[j] = p
    IN IF i < Len(ScriptOrder) THEN ScriptOrder[i + 1] ELSE "done"

FreshNs == [docs |-> FALSE, vectorstore |-> FALSE, llm |-> FALSE]

\* lines 27-31: loader.load() and split_documents; a missing PDF is fatal
LoadPdf ==
    /\ spc = "load"
    /\ \E ok \in BOOLEAN :
        IF ok THEN /\ ns' = [ns EXCEPT ![run].docs = TRUE]
                   /\ spc' = After("load")
              ELSE /\ spc' = "failed"
                   /\ UNCHANGED ns
    /\ UNCHANGED <<index, run, clicked, query, uiGa, widgets, thr, portOwner, backlog, h>>

\* lines 35-39: PineconeVectorStore.from_documents upserts one vector per
\* chunk under a fresh id; a failure leaves the batches sent so far
BuildVectorstore ==
    /\ spc = "index"
    /\ \E ok \in BOOLEAN :
        IF ok
        THEN /\ index' = index \cup {<<run, c>> : c \in 1..NChunks}
             /\ ns' = [ns EXCEPT ![run].vectorstore = TRUE]
             /\ spc' = After("index")
        ELSE /\ \E m \in 0..(NChunks - 1) :
                    index' = index \cup {<<run, c>> : c \in 1..m}
             /\ spc' = "failed"
             /\ UNCHANGED ns
    /\ UNCHANGED <<run, clicked, query, uiGa, widgets, thr, portOwner, backlog, h>>

\* line 43: ChatGroq(...)
BuildLlm ==
    /\ spc = "llm"
    /\ \E ok \in BOOLEAN :
        IF ok THEN /\ ns' = [ns EXCEPT ![run].llm = TRUE]
                   /\ spc' = After("llm")
              ELSE /\ spc' = "failed"
                   /\ UNCHANGED ns
    /\ UNCHANGED <<index, run, clicked, query, uiGa, widgets, thr, portOwner, backlog, h>>

\* line 114: threading.Thread(target=run_server, daemon=True).start()
StartThread ==
    /\ spc = "thread"
    /\ thr' = [thr EXCEPT ![run] = "started"]
    /\ spc' = After("thread")
    /\ UNCHANGED <<index, run, ns, clicked, query, uiGa, widgets, portOwner, backlog, h>>

\* lines 118-123: text_input, button, "if query:", entry into get_answer
Interface ==
    /\ spc = "ui"
    /\ widgets' = TRUE
    /\ IF clicked /\ query # <<>>
       THEN /\ uiGa' = GaStart(query)
            /\ spc' = "ask"
       ELSE /\ spc' = After("ui")
            /\ UNCHANGED uiGa
    /\ UNCHANGED <<index, run, ns, clicked, query, thr, portOwner, backlog, h>>

\* line 123 -> line 49 on the script's thread
UiRetrieve ==
    /\ spc = "ask" /\ uiGa.pc = "retrieve"
    /\ \E out \in SearchOutcomes : uiGa' = GaRetrieve(uiGa, run, out)
    /\ UNCHANGED <<index, run, spc, ns, clicked, query, widgets, thr, portOwner, backlog, h>>

\* line 123 -> lines 52-65 on the script's thread
UiGenerate ==
    /\ spc = "ask" /\ uiGa.pc = "generate"
    /\ \E out \in LlmOutcomes : uiGa' = GaGenerate(uiGa, run, out)
    /\ UNCHANGED <<index, run, spc, ns, clicked, query, widgets, thr, portOwner, backlog, h>>

\* line 124: st.markdown(answer); an exception out of get_answer ends the run
UiShow ==
    /\ spc = "ask" /\ uiGa.pc \in {"returned", "raised"}
    /\ spc' = IF uiGa.pc = "returned" THEN "done" ELSE "failed"
    /\ UNCHANGED <<index, run, ns, clicked, query, uiGa, widgets, thr, portOwner, backlog, h>>

\* a widget interaction (typing into text_input, pressing Ask): Streamlit
\* stops the current execution at its next st.* call, of which get_answer
\* makes none, and executes the script again from line 1 in fresh globals
Rerun ==
    /\ run < MaxRuns
    /\ ~(spc = "ask" /\ uiGa.pc \in {"retrieve", "generate"})
    /\ run' = run + 1
    /\ spc' = ScriptOrder[1]
    /\ \E c \in (IF widgets THEN BOOLEAN ELSE {FALSE}),
          q \in (IF widgets THEN {<<>>, <<"q">>} ELSE {<<>>}) : clicked' = c /\ query' = q
    /\ uiGa' = GaIdle
    /\ UNCHANGED <<index, ns, widgets, thr, portOwner, backlog, h>>

\* ------------------------------------------------------------- requests
ObjBody(hasq, q) == [kind |-> "object", hasQuery |-> hasq, query |-> q]
OtherBody(k) == [kind |-> k, hasQuery |-> FALSE, query |-> <<>>]

Req(m, p, cl, b) == [method |-> m, path |-> p, clen |-> cl, body |-> b]

\* the requests a client may send: method, path, Content-Length header
\* ("exact", "absent", "nonint") and body
Requests ==
    {Req("POST", "/query", "exact", b) :
        b \in {ObjBody(TRUE, <<"q">>), ObjBody(TRUE, <<>>), ObjBody(FALSE, <<>>),
               OtherBody("array"), OtherBody("malformed")}}
    \cup {Req("POST", "/query", cl, ObjBody(TRUE, <<"q">>)) : cl \in {"absent", "nonint"}}
    \cup {Req("POST", "/other", "exact", ObjBody(TRUE, <<"q">>))}
    \cup {Req("OPTIONS", p, "absent", OtherBody("empty")) : p \in {"/query", "/other"}}

\* a mutation of the parser: an empty or absent query is rejected
ParseRejectEmpty(r) ==
    IF r.clen = "exact" /\ r.body.kind = "object" /\ r.body.hasQuery /\ r.body.query # <<>>
    THEN [ok |-> TRUE, query |-> r.body.query, err |-> <<>>]
    ELSE [ok |-> FALSE, query |-> <<>>, err |-> <<"ValueError">>]

\* a mutation of the parser: a body without a usable query is read as ""
ParseLenient(r) == [ok |-> TRUE, query |-> IF r.body.hasQuery THEN r.body.query ELSE <<>>,
                    err |-> <<>>]

\* lines 89-92: int(Content-Length or 0), rfile.read, json.loads, data.get
Parse(r) ==
    IF r.clen = "nonint" THEN [ok |-> FALSE, query |-> <<>>, err |-> <<"ValueError">>]
    ELSE LET raw == IF r.clen = "absent" THEN OtherBody("empty") ELSE r.body
         IN IF raw.kind \in {"malformed", "empty"}
            THEN [ok |-> FALSE, query |-> <<>>, err |-> <<"JSONDecodeError">>]
            ELSE IF raw.kind # "object"
            THEN [ok |-> FALSE, query |-> <<>>, err |-> <<"AttributeError">>]
            ELSE [ok |-> TRUE, query |-> IF raw.hasQuery THEN raw.query ELSE <<>>,
                  err |-> <<>>]

\* ------------------------------------------------------------- responses
CorsHeaders == {<<"Access-Control-Allow-Origin", "*">>,
                <<"Access-Control-Allow-Methods", "GET, POST, OPTIONS">>,
                <<"Access-Control-Allow-Headers", "Content-Type">>}

\* a mutation of _set_headers: the CORS headers are left out
set_headers_plain(status) ==
    [kind |-> "headers", status |-> status,
     fields |-> {<<"Content-Type", "application/json">>}]

\* lines 72-79: what _set_headers(status) sends
set_headers(status) ==
    [kind |-> "headers", status |-> status,
     fields |-> {<<"Content-Type", "application/json">>} \cup CorsHeaders]

\* json.dumps({key: value}).encode()
JsonBody(key, value) == [kind |-> "body", key |-> key, value |-> value]

NoReq == Req("NONE", "", "absent", OtherBody("empty"))

Idle == [pc |-> "idle", req |-> NoReq, ga |-> GaIdle, exc |-> <<>>,
         parsed |-> "none", statusCalls |-> <<>>, bodyCalls |-> 0,
         wire |-> <<>>, broken |-> FALSE]

\* outcomes of a write to the client socket: once the connection is broken
\* every later write raises
WriteOutcomes(x) == IF x.broken THEN {FALSE} ELSE BOOLEAN

\* _set_headers(status) in activation x: send_response buffers the status
\* line, end_headers flushes; ok says whether the flush reached the client
SendHeaders(x, status, ok, pcOk, pcFail) ==
    [x EXCEPT !.statusCalls = Append(@, status),
              !.wire = IF ok THEN Append(@, set_headers(status)) ELSE @,
              !.broken = ~ok,
              !.exc = IF ok THEN @ ELSE <<"BrokenPipeError">>,
              !.pc = IF ok THEN pcOk ELSE pcFail]

\* self.wfile.write(json.dumps({key: value}).encode())
WriteBody(x, key, value, ok, pcOk, pcFail) ==
    [x EXCEPT !.bodyCalls = @ + 1,
              !.wire = IF ok THEN Append(@, JsonBody(key, value)) ELSE @,
              !.broken = ~ok,
              !.exc = IF ok THEN @ ELSE <<"BrokenPipeError">>,
              !.pc = IF ok THEN pcOk ELSE pcFail]

\* ------------------------------------------------------------- the server thread
\* a mutation of the listener: the port can be bound while another thread
\* already listens on it
BindSharesPort == TRUE

\* HTTPServer(server_address, RAGRequestHandler) (line 109) binds only a free port
BindSucceeds == portOwner = 0

\* lines 106-111: run_server on the thread started by run t
Bind(t) ==
    /\ thr[t] = "started"
    /\ IF BindSucceeds
       THEN thr' = [thr EXCEPT ![t] = "serving"] /\ portOwner' = t
       ELSE thr' = [thr EXCEPT ![t] = "dead"] /\ UNCHANGED portOwner
    /\ UNCHANGED <<index, run, spc, ns, clicked, query, uiGa, widgets, backlog, h>>

\* a client connects to the listening port
Connect ==
    /\ portOwner # 0
    /\ backlog < MaxPending
    /\ backlog' = backlog + 1
    /\ UNCHANGED <<index, run, spc, ns, clicked, query, uiGa, widgets, thr, portOwner, h>>

Step(t, x) ==
    /\ h' = [h EXCEPT ![t] = x]
    /\ UNCHANGED <<index, run, spc, ns, clicked, query, uiGa, widgets, thr, portOwner, backlog>>

\* line 111: serve_forever takes the next connection when the previous
\* request's handler has returned, reads the request r the client sent and
\* calls the method's do_* handler
Accept(t) ==
    /\ thr[t] = "serving"
    /\ h[t].pc = "idle"
    /\ backlog > 0
    /\ \E r \in Requests :
        h' = [h EXCEPT ![t] = [Idle EXCEPT !.req = r,
                 !.pc = IF r.method = "POST" THEN "do_POST" ELSE "do_OPTIONS"]]
    /\ backlog' = backlog - 1
    /\ UNCHANGED <<index, run, spc, ns, clicked, query, uiGa, widgets, thr, portOwner>>

\* lines 81-83
do_OPTIONS(t) ==
    /\ h[t].pc = "do_OPTIONS"
    /\ \E ok \in WriteOutcomes(h[t]) : Step(t, SendHeaders(h[t], 200, ok, "done", "crashed"))

\* a mutation of the routing: every path is served as /query
RouteAnyPath(path) == "read"

\* line 87: if self.path == "/query" ... else (line 100)
Route(path) == IF path = "/query" THEN "read" ELSE "h404"

\* line 87 and the else branch's entry (line 100)
PostRoute(t) ==
    /\ h[t].pc = "do_POST"
    /\ Step(t, [h[t] EXCEPT !.pc = Route(h[t].req.path)])

\* lines 89-94: read and parse the body, then enter get_answer(query);
\* an exception goes to the except clause of line 97
PostRead(t) ==
    /\ h[t].pc = "read"
    /\ LET d == Parse(h[t].req)
       IN IF d.ok
          THEN Step(t, [h[t] EXCEPT !.parsed = "ok", !.ga = GaStart(d.query), !.pc = "answer"])
          ELSE Step(t, [h[t] EXCEPT !.parsed = "error", !.exc = d.err, !.pc = "h500"])

\* line 94 -> line 49 on server thread t
PostRetrieve(t) ==
    /\ h[t].pc = "answer" /\ h[t].ga.pc = "retrieve"
    /\ \E out \in SearchOutcomes : Step(t, [h[t] EXCEPT !.ga = GaRetrieve(@, t, out)])

\* line 94 -> lines 52-65 on server thread t
PostGenerate(t) ==
    /\ h[t].pc = "answer" /\ h[t].ga.pc = "generate"
    /\ \E out \in LlmOutcomes : Step(t, [h[t] EXCEPT !.ga = GaGenerate(@, t, out)])

\* line 95: get_answer has returned, _set_headers(); an exception out of
\* get_answer or out of the flush goes to the except clause of line 97
PostHeaders200(t) ==
    /\ h[t].pc = "answer" /\ h[t].ga.pc \in {"returned", "raised"}
    /\ IF h[t].ga.pc = "raised"
       THEN Step(t, [h[t] EXCEPT !.exc = h[t].ga.error, !.pc = "h500"])
       ELSE \E ok \in WriteOutcomes(h[t]) : Step(t, SendHeaders(h[t], 200, ok, "b200", "h500"))

\* line 96: write {"answer": answer}; a raise goes to the except clause
PostBody200(t) ==
    /\ h[t].pc = "b200"
    /\ \E ok \in WriteOutcomes(h[t]) :
            Step(t, WriteBody(h[t], "answer", h[t].ga.result, ok, "done", "h500"))

\* line 98: _set_headers(500); a raise here leaves do_POST
PostHeaders500(t) ==
    /\ h[t].pc = "h500"
    /\ \E ok \in WriteOutcomes(h[t]) : Step(t, SendHeaders(h[t], 500, ok, "b500", "crashed"))

\* line 99: write {"error": str(e)}
PostBody500(t) ==
    /\ h[t].pc = "b500"
    /\ \E ok \in WriteOutcomes(h[t]) :
            Step(t, WriteBody(h[t], "error", h[t].exc, ok, "done", "crashed"))

\* line 101
PostHeaders404(t) ==
    /\ h[t].pc = "h404"
    /\ \E ok \in WriteOutcomes(h[t]) : Step(t, SendHeaders(h[t], 404, ok, "b404", "crashed"))

\* line 102
PostBody404(t) ==
    /\ h[t].pc = "b404"
    /\ \E ok \in WriteOutcomes(h[t]) :
            Step(t, WriteBody(h[t], "error", <<"Endpoint not found.">>, ok, "done", "crashed"))

\* the handler method has returned or raised: the connection is closed and
\* serve_forever loops
Finish(t) ==
    /\ h[t].pc \in {"done", "crashed"}
    /\ Step(t, Idle)

\* ------------------------------------------------------------- specification
Init ==
    /\ index = {}
    /\ run = 1
    /\ spc = ScriptOrder[1]
    /\ ns = [r \in Runs |-> FreshNs]
    /\ clicked = FALSE
    /\ query = <<>>
    /\ uiGa = GaIdle
    /\ widgets = FALSE
    /\ thr = [r \in Runs |-> "none"]
    /\ portOwner = 0
    /\ backlog = 0
    /\ h = [r \in Runs |-> Idle]

Next ==
    \/ LoadPdf
    \/ BuildVectorstore
    \/ BuildLlm
    \/ StartThread
    \/ Interface
    \/ UiRetrieve
    \/ UiGenerate
    \/ UiShow
    \/ Rerun
    \/ Connect
    \/ \E t \in Runs :
        \/ Bind(t)
        \/ Accept(t)
        \/ do_OPTIONS(t)
        \/ PostRoute(t)
        \/ PostRead(t)
        \/ PostRetrieve(t)
        \/ PostGenerate(t)
        \/ PostHeaders200(t)
        \/ PostBody200(t)
        \/ PostHeaders500(t)
        \/ PostBody500(t)
        \/ PostHeaders404(t)
        \/ PostBody404(t)
        \/ Finish(t)

Spec == Init /\ [][Next]_vars

\* ------------------------------------------------------------- properties
IsHeaders(m, status) == m.kind = "headers" /\ m.status = status

IsJson(m, key, value) == m.kind = "body" /\ m.key = key /\ m.value = value

\* what the client has received is a prefix of: status line and headers with
\* this status, then the JSON object {key: value}
WithinResponse(x, status, key, value) ==
    /\ Len(x.wire) <= 2
    /\ Len(x.wire) >= 1 => IsHeaders(x.wire[1], status)
    /\ Len(x.wire) = 2 => IsJson(x.wire[2], key, value)

FullResponse(x, status, key, value) ==
    Len(x.wire) = 2 /\ WithinResponse(x, status, key, value)

\* the handler returns normally only with the response delivered; it is
\* left by an exception only when the client connection broke
Ended(x) == x.pc \in {"done", "crashed"}

IsString(s) == \E n \in 0..2 : DOMAIN s = 1..n

\* the request is a POST /query carrying a JSON object in the bytes that
\* Content-Length announces
ObjectQuery(r) ==
    r.method = "POST" /\ r.path = "/query" /\ r.clen = "exact" /\ r.body.kind = "object"

\* the request is a POST /query whose body cannot be read as a JSON object
BadQuery(r) ==
    r.method = "POST" /\ r.path = "/query" /\ ~(r.clen = "exact" /\ r.body.kind = "object")

\* C1: a POST /query with a JSON object body is never rejected: get_answer
\* receives the query field (the empty string when it is absent or empty) and
\* the client is sent status 200 and {"answer": <the string get_answer
\* returned>}; the handler completes exactly with that whole response sent
C1_QueryAnswered ==
    \A t \in Runs :
        LET x == h[t] IN
        ObjectQuery(x.req) =>
            /\ x.parsed # "error"
            /\ x.parsed = "ok" =>
                    x.ga.query = (IF x.req.body.hasQuery THEN x.req.body.query ELSE <<>>)
            /\ WithinResponse(x, 200, "answer", x.ga.result)
            /\ x.pc = "done" => FullResponse(x, 200, "answer", x.ga.result) /\ IsString(x.ga.result)
            /\ x.pc = "crashed" => x.broken

\* C1 happens: a body without a query field was answered with 200
C1_Witness ==
    \E t \in Runs :
        /\ ObjectQuery(h[t].req) /\ ~h[t].req.body.hasQuery
        /\ h[t].pc = "done"
        /\ h[t].ga.query = <<>>
        /\ FullResponse(h[t], 200, "answer", h[t].ga.result)

\* C2: when the similarity search or the LLM call raises, get_answer returns
\* (never raises) a string that begins with the warning marker, and the client
\* of that POST /query is sent status 200 with that string as the answer,
\* never status 500
C2_ErrorsBecomeAnswers ==
    /\ uiGa.raisedIn # "none" => uiGa.pc = "returned" /\ StartsWithWarning(uiGa.result)
    /\ \A t \in Runs :
        LET x == h[t] IN
        x.ga.raisedIn # "none" =>
            /\ x.ga.pc = "returned"
            /\ StartsWithWarning(x.ga.result)
            /\ WithinResponse(x, 200, "answer", x.ga.result)
            /\ x.pc = "done" => FullResponse(x, 200, "answer", x.ga.result)

\* C2 happens: the LLM raised and the request was answered 200 with a warning
C2_Witness ==
    \E t \in Runs :
        /\ h[t].ga.raisedIn = "llm" /\ h[t].ga.llmCalled
        /\ h[t].pc = "done"
        /\ StartsWithWarning(h[t].ga.result)
        /\ FullResponse(h[t], 200, "answer", h[t].ga.result)

\* C3 as stated: a completed request of any method to a path other than
\* /query was answered 404 with an error field
C3_AnyMethod404 ==
    \A t \in Runs :
        LET x == h[t] IN
        (x.pc = "done" /\ x.req.path # "/query") =>
            /\ Len(x.wire) = 2
            /\ IsHeaders(x.wire[1], 404)
            /\ x.wire[2].kind = "body" /\ x.wire[2].key = "error"

\* C3 amended: a POST to any path other than /query is sent status 404 and
\* {"error": "Endpoint not found."} without parsing the body or calling
\* get_answer; the handler completes exactly with that whole response sent
C3_Post404 ==
    \A t \in Runs :
        LET x == h[t] IN
        (x.req.method = "POST" /\ x.req.path # "/query") =>
            /\ x.parsed = "none" /\ x.ga.pc = "none"
            /\ WithinResponse(x, 404, "error", <<"Endpoint not found.">>)
            /\ x.pc = "done" => FullResponse(x, 404, "error", <<"Endpoint not found.">>)
            /\ x.pc = "crashed" => x.broken

\* C3 happens: a POST /other was answered 404
C3_Witness ==
    \E t \in Runs :
        /\ h[t].req.method = "POST" /\ h[t].req.path = "/other"
        /\ h[t].pc = "done"
        /\ FullResponse(h[t], 404, "error", <<"Endpoint not found.">>)

\* C4: an OPTIONS request to any path is sent status 200 with the three CORS
\* headers (Allow-Origin "*", Allow-Methods, Allow-Headers), no body is
\* written and get_answer is not called
C4_Preflight ==
    \A t \in Runs :
        LET x == h[t] IN
        x.req.method = "OPTIONS" =>
            /\ x.ga.pc = "none" /\ x.parsed = "none"
            /\ x.bodyCalls = 0
            /\ Len(x.wire) <= 1
            /\ Len(x.wire) = 1 =>
                /\ IsHeaders(x.wire[1], 200)
                /\ <<"Access-Control-Allow-Origin", "*">> \in x.wire[1].fields
                /\ \A name \in {"Access-Control-Allow-Methods", "Access-Control-Allow-Headers"} :
                        \E f \in x.wire[1].fields : f[1] = name
            /\ x.pc = "done" => Len(x.wire) = 1
            /\ x.pc = "crashed" => x.broken

\* C4 happens: an OPTIONS to a path other than /query was answered
C4_Witness ==
    \E t \in Runs :
        /\ h[t].req.method = "OPTIONS" /\ h[t].req.path = "/other"
        /\ h[t].pc = "done"
        /\ Len(h[t].wire) = 1 /\ IsHeaders(h[t].wire[1], 200)

\* C5: when reading or parsing the body of a POST /query raises (malformed
\* JSON, non-integer or missing Content-Length, JSON that is not an object)
\* get_answer is not called and the client is sent status 500 and
\* {"error": <the exception's text>}
C5_ParseError500 ==
    \A t \in Runs :
        LET x == h[t] IN
        BadQuery(x.req) =>
            /\ x.parsed # "ok"
            /\ x.ga.pc = "none"
            /\ WithinResponse(x, 500, "error", x.exc)
            /\ x.pc = "done" => FullResponse(x, 500, "error", x.exc) /\ Len(x.exc) > 0
            /\ x.pc = "crashed" => x.broken

\* C5 happens: a JSON array body was answered 500
C5_Witness ==
    \E t \in Runs :
        /\ BadQuery(h[t].req) /\ h[t].req.body.kind = "array"
        /\ h[t].pc = "done"
        /\ FullResponse(h[t], 500, "error", <<"AttributeError">>)

\* the module globals of run r hold the loaded chunks, the indexed vector
\* store and the LLM client, and the index holds run r's vectors
Ready(r) ==
    /\ ns[r].docs /\ ns[r].vectorstore /\ ns[r].llm
    /\ \A c \in 1..NChunks : <<r, c>> \in index

\* C6: a run starts its server thread only after its loading, chunking,
\* indexing and LLM client construction have completed: whenever a thread
\* exists, the port is bound, a connection waits or a request is being
\* handled, the globals the handler uses are complete
C6_ListenAfterIndexing ==
    /\ \A t \in Runs : (thr[t] # "none" \/ h[t].pc # "idle") => Ready(t)
    /\ portOwner # 0 => Ready(portOwner)
    /\ backlog > 0 => portOwner # 0

\* C6 happens: a request is inside get_answer on the server thread
C6_Witness ==
    \E t \in Runs : thr[t] = "serving" /\ h[t].pc = "answer" /\ h[t].ga.pc = "generate"

\* C7: in every request that reaches get_answer the LLM is invoked only
\* after similarity_search has returned at most k results, it is never
\* invoked when the search raised, and nothing of the response (status line,
\* headers, body) is issued before get_answer has returned
C7_RetrieveGenerateRespond ==
    /\ uiGa.llmCalled => uiGa.searched /\ uiGa.raisedIn # "search"
    /\ \A t \in Runs :
        LET x == h[t] IN
        /\ x.ga.llmCalled => x.ga.searched /\ x.ga.raisedIn # "search"
        /\ x.ga.raisedIn = "search" => ~x.ga.searched /\ x.ga.pc # "generate"
        /\ x.ga.pc = "generate" => x.ga.searched /\ x.ga.nresults <= K
        /\ x.ga.pc \in {"retrieve", "generate"} =>
                x.statusCalls = <<>> /\ x.bodyCalls = 0 /\ x.wire = <<>>
        /\ (x.parsed = "ok" /\ x.statusCalls # <<>>) => x.ga.pc = "returned"

\* C7 happens: a request was answered after search and LLM had both run
C7_Witness ==
    \E t \in Runs :
        /\ h[t].pc = "done" /\ h[t].ga.searched /\ h[t].ga.llmCalled
        /\ h[t].ga.raisedIn = "none"
        /\ FullResponse(h[t], 200, "answer", h[t].ga.result)

InHandler(t) == h[t].pc # "idle"

InGetAnswer(f) == f.pc \in {"retrieve", "generate"}

\* C8: at most one thread listens and at most one HTTP request is inside a
\* handler method; further connections wait in the backlog
C8_OneRequestAtATime ==
    /\ Cardinality({t \in Runs : thr[t] = "serving"}) <= 1
    /\ Cardinality({t \in Runs : InHandler(t)}) <= 1
    /\ Cardinality({t \in Runs : InGetAnswer(h[t].ga)}) <= 1
    /\ \A t \in Runs : InHandler(t) => thr[t] = "serving" /\ portOwner = t

\* C8 happens: a connection waits while a request is inside get_answer, and
\* the interactive page's get_answer call overlaps it
C8_Witness ==
    /\ backlog > 0
    /\ InGetAnswer(uiGa)
    /\ \E t \in Runs : InGetAnswer(h[t].ga)

VectorsOf(c) == {v \in index : v[2] = c}

\* C9 as stated, for interactive-page queries: startup indexing has finished
\* and the page has answered a query, and the index still holds exactly one
\* vector per chunk
C9_OneVectorPerChunk ==
    (Ready(1) /\ uiGa.pc = "returned") =>
        \A c \in 1..NChunks : Cardinality(VectorsOf(c)) = 1

\* C10 as stated, on the path it names: a POST whose 200 status line and
\* headers were sent ends with exactly one status line issued and exactly
\* one body written
C10_OneResponse ==
    \A t \in Runs :
        LET x == h[t] IN
        (x.req.method = "POST" /\ Ended(x) /\ Len(x.wire) >= 1 /\ IsHeaders(x.wire[1], 200)) =>
            /\ x.statusCalls = <<200>>
            /\ x.bodyCalls = 1

====
